---- MODULE Spec2Model ----
(***************************************************************************)
(* Model of the research agent's orchestrator (agent/loop.py), the state   *)
(* object it drives (agent/state.py), the four stages and the tracer.      *)
(* One behaviour of Spec is one call of run_research(query, on_progress).  *)
(* pc is the position of the call inside run_research / _run_loop.         *)
(***************************************************************************)
EXTENDS Integers, Sequences, FiniteSets, TLC

(* ---------------- configuration (config.py, guardrails.py) -------------- *)

max_research_rounds == 3
max_cost_usd == 2
MIN_QUERY_LENGTH == 10
MAX_QUERY_LENGTH == 500

\* scaled-down settings and input bounds
max_sources_per_run == 2
max_search_results == 2
MaxSubqueries == 2
MaxClientCost == 3
NumUrls == 3

\* a url is abstracted to: which page it is (id), and the numbers n of the
\* [n] written in its text, in order (none inside a run)
Urls == [id : 1..NumUrls, cites : {<< >>}]

(* ---------------- inputs ------------------------------------------------ *)

\* a query is abstracted to: is it a str, its length after strip(), and
\* what `str(query) if query else ""` (loop.py l.67) does with the object:
\* it evaluates ("ok"), or bool() or str() of the object raises (a numpy
\* array's truth value raises ValueError; a __str__ may raise anything)
NonStrings ==
    [is_str : {FALSE}, len : {0}, str_query : {"ok", "ValueError", "RuntimeError"}]

QueryInputs ==
    NonStrings \cup
    [is_str : {TRUE}, len : {0, MIN_QUERY_LENGTH - 1, MIN_QUERY_LENGTH, MAX_QUERY_LENGTH + 1},
     str_query : {"ok"}]

\* what the planner's LLM call yields: a failure, or the parsed "queries" list
PlannerQueryNames == <<"q1", "q2", "q3", "q4">>
PlannerOutputs ==
    {[ok |-> FALSE, queries |-> << >>]} \cup
    {[ok |-> TRUE, queries |-> [i \in 1..n |-> PlannerQueryNames[i]]] : n \in 0..MaxSubqueries}

\* FetchResult of a fetch_page call that failed (fetch.py _failed)
FetchFailed == [success |-> FALSE, words |-> 0, source |-> "failed"]

\* one search hit: its url, the number of words of its best_content, what
\* fetch_page would return for the url, and whether the cheap model returns a
\* summary of at least 20 characters. Inside a run two kinds of hit are
\* drawn: a full extract that is summarized, and a thin one that cannot be
\* fetched.
\* title: the numbers n of the [n] written in the page's title, in order
SearchResults ==
    [url : Urls, title : {<< >>}, words : {29, 100}, fetch : {FetchFailed},
     summary_ok : {TRUE}]

SearchBatches == UNION {[1..n -> SearchResults] : n \in 0..max_search_results}

\* what the reflector's LLM call yields: failure / unparsable text, or the
\* ok: the LLM call returned; json: what json.loads makes of the text (an
\* object, another JSON value, or a JSONDecodeError); follow_up: the object's
\* follow_up_query field ("missing" for an absent key, None for null)
ReflectorOutputs ==
    {[ok |-> FALSE, json |-> "invalid", follow_up |-> "missing"],
     [ok |-> TRUE, json |-> "invalid", follow_up |-> "missing"]} \cup
    [ok : {TRUE}, json : {"object"},
     follow_up : {"missing", "", " ", "null", "NULL", "None", "follow up"}]

\* queries around the two length limits of validate_query
QueryMargin == 10
ValidationInputs ==
    NonStrings \cup
    [is_str : {TRUE},
     len : (0..(MIN_QUERY_LENGTH + QueryMargin)) \cup
           ((MAX_QUERY_LENGTH - QueryMargin)..(MAX_QUERY_LENGTH + QueryMargin)),
     str_query : {"ok"}]

\* token counts passed to add_cost
MaxTokens == 1

\* the text of the original question once validated (state.query)
QueryText == "Q"
None == "<None>"
top_k_summaries == 2

VARIABLES
    query,            \* the argument of run_research
    on_progress,      \* TRUE iff a callback was passed
    pc,               \* position inside run_research / _run_loop
    exc,              \* class of the exception being handled ("none" if none)
    subqueries, page_summaries, visited_urls, knowledge_gaps, rounds_completed,
    final_report, sources, status, stop_reason, errors, estimated_cost_usd,
    client_cost,      \* the LLM client's running cost
    current_queries, round_num, qi, round_exit, reflection,
    step_counter, spans, trace,
    calls,            \* number of invocations of each stage so far
    verdicts,         \* has_gap of every ReflectionResult returned so far
    fn_arg, fn_ret,   \* argument and result of a function called on its own
    trace_file,       \* the file {run_id}.json on disk
    loaded            \* what a concurrent load_traces last read from it

state_vars == <<subqueries, page_summaries, visited_urls, knowledge_gaps,
                rounds_completed, final_report, sources, status, stop_reason,
                errors, estimated_cost_usd>>
loop_vars == <<current_queries, round_num, qi, round_exit, reflection>>
tracer_vars == <<step_counter, spans, trace>>
unit_vars == <<fn_arg, fn_ret, trace_file, loaded>>
vars == <<query, on_progress, pc, exc, state_vars, client_cost, loop_vars,
          tracer_vars, calls, verdicts, unit_vars>>

(* ---------------- guardrails.py ----------------------------------------- *)

\* "ok" when the query is returned, else the ValueError that is raised
validate_query(q) ==
    IF ~q.is_str THEN "not_string"
    ELSE IF q.len = 0 THEN "empty"
    ELSE IF q.len < MIN_QUERY_LENGTH THEN "too_short"
    ELSE IF q.len > MAX_QUERY_LENGTH THEN "too_long"
    ELSE "ok"

(* ---------------- state.py ---------------------------------------------- *)

NoReason == [kind |-> "", round |-> 0, exc |-> "none"]
Reason(k, r, e) == [kind |-> k, round |-> r, exc |-> e]
ErrorEntry(k, r, e) == [kind |-> k, round |-> r, exc |-> e]

total_sources == Len(page_summaries)

\* token prices of config.py per 1000 tokens, in units of 10^-8 dollar
smart_input_cost_per_1k == 500000
smart_output_cost_per_1k == 1500000
cheap_input_cost_per_1k == 15000
cheap_output_cost_per_1k == 60000

\* ResearchState.add_cost: the new estimated cost, in units of 10^-8 dollar
add_cost(cost, input_tokens, output_tokens, model) ==
    IF model = "cheap"
    THEN cost + (input_tokens * cheap_input_cost_per_1k) \div 1000
              + (output_tokens * cheap_output_cost_per_1k) \div 1000
    ELSE cost + (input_tokens * smart_input_cost_per_1k) \div 1000
              + (output_tokens * smart_output_cost_per_1k) \div 1000

UrlsOf(summaries) == [i \in 1..Len(summaries) |-> summaries[i].url]

\* record_success that also writes a stop reason
record_success_with_reason(report, srcs) ==
    /\ final_report' = report
    /\ sources' = srcs
    /\ status' = "success"
    /\ stop_reason' = Reason("completed", 0, "none")

record_success(report, srcs) ==
    /\ final_report' = report
    /\ sources' = srcs
    /\ status' = "success"
    /\ UNCHANGED stop_reason

record_partial(report, srcs, reason) ==
    /\ final_report' = report
    /\ sources' = srcs
    /\ status' = "partial"
    /\ stop_reason' = reason

\* record_failure that forgets to leave the running status
record_failure_keeps_status(reason) ==
    /\ stop_reason' = reason
    /\ UNCHANGED <<status, final_report, sources>>

record_failure(reason) ==
    /\ status' = "failed"
    /\ stop_reason' = reason
    /\ UNCHANGED <<final_report, sources>>

(* ---------------- tracer.py --------------------------------------------- *)

\* the span list after `with tracer.span(name)` has exited; err is "none"
\* when the block completed and the exception's class when it raised
\* span.metadata entries the loop writes before it calls the stage:
\* subquery and round for the researcher (l.161-162), round for the
\* reflector (l.178)
SpanMetadata(name) ==
    IF name = "researcher"
    THEN [subquery |-> current_queries[qi], round |-> round_num]
    ELSE IF name = "reflector"
    THEN [subquery |-> None, round |-> round_num]
    ELSE [subquery |-> None, round |-> 0]

\* exception classes that derive from BaseException but not from Exception:
\* `except Exception` (tracer.py l.153, loop.py l.100) does not catch them
BaseExceptions == {"KeyboardInterrupt", "SystemExit"}

\* Tracer.span l.150-155: s.finish("success") after the block, or
\* s.finish("error", ...) in `except Exception`; a block that raises a
\* BaseException leaves the span as it was appended: not finished, with
\* Span's defaults status "success" and error "" (l.64-66)
SpanClosed(name, err) ==
    Append(spans, [name |-> name, step |-> step_counter + 1,
                   finished |-> (err \notin BaseExceptions),
                   metadata |-> SpanMetadata(name),
                   status |-> IF err = "none" \/ err \in BaseExceptions
                              THEN "success" ELSE "error",
                   error |-> IF err = "none" \/ err \in BaseExceptions
                             THEN "" ELSE err])

\* Tracer.span that numbers the span without advancing the step counter
span_reuses_step(name, err) ==
    /\ step_counter' = step_counter
    /\ spans' = SpanClosed(name, err)
    /\ UNCHANGED trace

span(name, err) ==
    /\ step_counter' = step_counter + 1
    /\ spans' = SpanClosed(name, err)
    /\ UNCHANGED trace

(* ---------------- llm/client.py (cost accounting) ----------------------- *)

\* a refresh that writes the cost added since the last refresh, not the total
update_state_cost_since_last(cost) == estimated_cost_usd' = cost - estimated_cost_usd

\* client.update_state_cost(state): copy the client's running cost into state
update_state_cost(cost) == estimated_cost_usd' = cost

(* ---------------- planner.py -------------------------------------------- *)

\* Planner.decompose: the parsed queries, or [query] on failure / empty list
decompose(out) ==
    IF out.ok /\ Len(out.queries) > 0 THEN out.queries ELSE <<QueryText>>

(* ---------------- researcher.py ----------------------------------------- *)

\* Researcher.research step 2: drop visited urls and in-batch duplicates
RECURSIVE FilterNew(_, _, _)
FilterNew(results, visited, seen_in_batch) ==
    IF results = << >> THEN << >>
    ELSE LET r == Head(results) IN
         IF r.url \notin visited /\ r.url \notin seen_in_batch
         THEN <<r>> \o FilterNew(Tail(results), visited, seen_in_batch \cup {r.url})
         ELSE FilterNew(Tail(results), visited, seen_in_batch)

\* _summarize_result l.146-147: the urls fetch_page is called with
FetchCalls(result) == IF result.words < 100 THEN <<result.url>> ELSE << >>

\* _summarize_result l.143-155: the content that goes on, as its number of
\* words and its origin
ChosenContent(result) ==
    IF result.words < 100 /\ result.fetch.success
    THEN [words |-> result.fetch.words, source |-> result.fetch.source]
    ELSE [words |-> result.words, source |-> "tavily"]

\* Researcher._summarize_result: <<PageSummary>>, or << >> for None
_summarize_result(result, round_number) ==
    IF ChosenContent(result).words < 30 THEN << >>
    ELSE IF ~result.summary_ok THEN << >>
    ELSE <<[url |-> result.url, title |-> result.title,
            round_number |-> round_number,
            source |-> ChosenContent(result).source]>>

\* Researcher.research step 3: summarize each new result, keep the non-None
RECURSIVE SummarizeAll(_, _)
SummarizeAll(new_results, round_number) ==
    IF new_results = << >> THEN << >>
    ELSE _summarize_result(Head(new_results), round_number)
            \o SummarizeAll(Tail(new_results), round_number)

\* research without step 2: every search hit is summarized
research_no_filter(results, visited, round_number) ==
    SummarizeAll(results, round_number)

research(results, visited, round_number) ==
    SummarizeAll(FilterNew(results, visited, {}), round_number)

(* ---------------- reflector.py ------------------------------------------ *)

\* str.strip() and str.lower() on the strings the model uses
Strip(s) ==
    CASE s = " " -> ""
      [] s = " dup " -> "dup"
      [] s = " none " -> "none"
      [] s = " follow up " -> "follow up"
      [] OTHER -> s
Lower(s) ==
    CASE s = "None" -> "none"
      [] s = "NULL" -> "null"
      [] s = "nOnE" -> "none"
      [] s = "DUP" -> "dup"
      [] s = "LOCALHOST" -> "localhost"
      [] s = "Example.COM" -> "example.com"
      [] OTHER -> s

\* _parse_reflection comparing the follow-up without lowercasing it
_parse_reflection_case_sensitive(out) ==
    IF out.json # "object"
    THEN [has_gap |-> FALSE, follow_up_query |-> None]
    ELSE IF out.follow_up \notin {"missing", None, ""}
            /\ Strip(out.follow_up) \notin {"null", "none", ""}
    THEN [has_gap |-> TRUE, follow_up_query |-> Strip(out.follow_up)]
    ELSE [has_gap |-> FALSE, follow_up_query |-> None]

\* _parse_reflection l.205-226: a JSONDecodeError or a non-object value
\* (AttributeError on .get) is no gap; so is a falsy or "null"/"none" field
_parse_reflection(out) ==
    IF out.json # "object"
    THEN [has_gap |-> FALSE, follow_up_query |-> None]
    ELSE IF out.follow_up \notin {"missing", None, ""}
            /\ Lower(Strip(out.follow_up)) \notin {"null", "none", ""}
    THEN [has_gap |-> TRUE, follow_up_query |-> Strip(out.follow_up)]
    ELSE [has_gap |-> FALSE, follow_up_query |-> None]

\* reflect that asks the LLM even when nothing was collected
reflect_always_asks(summaries, out) ==
    IF ~out.ok
    THEN [has_gap |-> FALSE, follow_up_query |-> None]
    ELSE _parse_reflection(out)

\* Reflector.reflect: a gap on the query itself when nothing was collected,
\* no gap when the LLM call fails, else the parsed answer
reflect(summaries, out) ==
    IF summaries = << >>
    THEN [has_gap |-> TRUE, follow_up_query |-> QueryText]
    ELSE IF ~out.ok
    THEN [has_gap |-> FALSE, follow_up_query |-> None]
    ELSE _parse_reflection(out)

\* `x or ""` for an optional string
OrEmpty(x) == IF x = None THEN "" ELSE x

\* a ResearchState holding the given summaries and nothing else, a fresh
\* client, no span recorded
StateWith(summaries) ==
    /\ exc = "none"
    /\ subqueries = << >>
    /\ page_summaries = summaries
    /\ visited_urls = {summaries[i].url : i \in 1..Len(summaries)}
    /\ knowledge_gaps = << >>
    /\ rounds_completed = 0
    /\ final_report = ""
    /\ sources = << >>
    /\ status = "running"
    /\ stop_reason = NoReason
    /\ errors = << >>
    /\ estimated_cost_usd = 0
    /\ client_cost = 0
    /\ current_queries = << >>
    /\ round_num = 0
    /\ qi = 0
    /\ round_exit = "none"
    /\ reflection = [has_gap |-> FALSE, follow_up_query |-> None]
    /\ step_counter = 0
    /\ spans = << >>
    /\ calls = [planner |-> 0, researcher |-> 0, reflector |-> 0, synthesizer |-> 0]
    /\ verdicts = << >>

\* a fresh ResearchState and client, no span recorded
FreshState == StateWith(<< >>)

\* Trace's summary stats before Tracer.finish (tracer.py l.91-93)
NewTrace == [status |-> "running", n_rounds |-> 0, n_sources |-> 0]

\* a fresh ResearchState, client and tracer
FreshRun ==
    /\ pc = "start"
    /\ trace = NewTrace
    /\ FreshState

\* number of pieces json.dump writes the document in
DocChunks == 2

\* the file {run_id}.json: whether it exists, how many pieces of the
\* document json.dump has written into it, and the document being written
\* (Trace.to_dict: the summary stats of the trace)
\* no trace file written yet, nothing read from it
NoFile == [exists |-> FALSE, chunks |-> 0, doc |-> NewTrace]

\* the state of a call of run_research before its first statement
InitFor(inputs) ==
    /\ query \in inputs
    /\ on_progress \in BOOLEAN
    /\ FreshRun
    /\ fn_arg = None
    /\ fn_ret = None
    /\ trace_file = NoFile
    /\ loaded = NoFile

Init == InitFor(QueryInputs)

\* run_research l.64-72: validate the query, build the state. The handler
\* of a rejected query first evaluates `str(query) if query else ""` (l.67),
\* outside any try block: an exception of bool() or str() leaves
\* run_research
Validate ==
    /\ pc = "start"
    /\ IF validate_query(query) = "ok"
       THEN /\ pc' = "construct"
            /\ UNCHANGED <<exc, status, stop_reason, final_report, sources, errors>>
       ELSE IF query.str_query # "ok"
       THEN /\ pc' = "raised"
            /\ exc' = query.str_query
            /\ UNCHANGED <<status, stop_reason, final_report, sources, errors>>
       ELSE /\ errors' = Append(errors, ErrorEntry(validate_query(query), 0, "ValueError"))
            /\ record_failure(Reason("invalid_query", 0, "ValueError"))
            /\ pc' = "done"
            /\ UNCHANGED exc
    /\ UNCHANGED <<unit_vars, query, on_progress, subqueries, page_summaries, visited_urls,
                   knowledge_gaps, rounds_completed, estimated_cost_usd,
                   client_cost, loop_vars, tracer_vars, calls, verdicts>>

\* what a stage call and the on_progress callback can raise: an Exception,
\* or a BaseException (Ctrl-C during an LLM call, sys.exit() in a callback)
StageExceptions == {"StageError", "KeyboardInterrupt"}
CallbackExceptions == {"CallbackError", "SystemExit"}

\* what _log can raise (l.201-202): print() on a stdout that cannot encode
\* the message or cannot be written
LogExceptions == {"UnicodeEncodeError"}

\* an exception raised inside the try block of run_research (l.81-98) leaves
\* the block with e pending; the clause `except Exception` of l.100 is
\* tried next (Except)
Raise(e) == pc' = "except" /\ exc' = e

\* run_research l.73-74: LLMClient() and Tracer(); outside the try block
Construct ==
    /\ pc = "construct"
    /\ \/ pc' = "stages" /\ UNCHANGED exc
       \/ pc' = "raised" /\ exc' = "ClientError"
    /\ UNCHANGED <<unit_vars, query, on_progress, state_vars, client_cost, loop_vars,
                   tracer_vars, calls, verdicts>>

\* run_research l.82-85: build the four stages
MakeStages ==
    /\ pc = "stages"
    /\ \/ pc' = "progress_planning" /\ UNCHANGED exc
       \/ Raise("StageError")
    /\ UNCHANGED <<unit_vars, query, on_progress, state_vars, client_cost, loop_vars,
                   tracer_vars, calls, verdicts>>

\* the statement that follows each progress(...) call
ProgressNext ==
    [progress_planning    |-> "plan",        \* l.125
     progress_planned     |-> "loop_init",   \* l.131
     progress_round       |-> "inner",       \* l.138
     progress_source_cap  |-> "round_end",   \* l.156
     progress_searching   |-> "research",    \* l.159
     progress_found       |-> "inner",       \* l.167
     progress_max_rounds  |-> "loop_exit",   \* l.173
     progress_evaluating  |-> "reflect",     \* l.176
     progress_coverage    |-> "loop_exit",   \* l.186
     progress_gap         |-> "next_round",  \* l.190
     progress_synthesizing |-> "synth",      \* l.91
     progress_report      |-> "finally"]     \* l.98

\* run_research._progress l.76-79: log, then call the callback if there is one
_progress ==
    /\ pc \in DOMAIN ProgressNext
    /\ \/ pc' = ProgressNext[pc] /\ UNCHANGED exc
       \/ \E e \in LogExceptions : Raise(e)
       \/ on_progress /\ \E e \in CallbackExceptions : Raise(e)
    /\ UNCHANGED <<unit_vars, query, on_progress, state_vars, client_cost, loop_vars,
                   tracer_vars, calls, verdicts>>

\* _run_loop l.126-130: the planner span
Plan ==
    /\ pc = "plan"
    /\ calls' = [calls EXCEPT !.planner = @ + 1]
    /\ \/ /\ \E e \in StageExceptions : span("planner", e) /\ Raise(e)
          /\ UNCHANGED <<subqueries, client_cost, estimated_cost_usd>>
       \/ \E out \in PlannerOutputs, c \in 0..1 :
            /\ client_cost + c <= MaxClientCost
            /\ subqueries' = decompose(out)
            /\ client_cost' = client_cost + c
            /\ \/ /\ update_state_cost(client_cost')
                  /\ span("planner", "none")
                  /\ pc' = "progress_planned"
                  /\ UNCHANGED exc
               \/ /\ span("planner", "CostError")
                  /\ Raise("CostError")
                  /\ UNCHANGED estimated_cost_usd
    /\ UNCHANGED <<unit_vars, query, on_progress, page_summaries, visited_urls, knowledge_gaps,
                   rounds_completed, final_report, sources, status, stop_reason,
                   errors, loop_vars, verdicts>>

\* _run_loop l.134-136: current_queries = subqueries.copy(); first round
LoopInit ==
    /\ pc = "loop_init"
    /\ current_queries' = subqueries
    /\ round_num' = 1
    /\ qi' = 0
    /\ round_exit' = "none"
    /\ pc' = "progress_round"
    /\ UNCHANGED <<unit_vars, query, on_progress, exc, state_vars, client_cost, reflection,
                   tracer_vars, calls, verdicts>>

\* budget check with `>` in place of `>=` on the cost
BudgetVerdict_strict_cost(cost, n_sources) ==
    IF cost > max_cost_usd THEN "cost_cap"
    ELSE IF n_sources >= max_sources_per_run THEN "source_cap"
    ELSE "go"

\* budget check with the source cap tested before the cost cap
BudgetVerdict_source_first(cost, n_sources) ==
    IF n_sources >= max_sources_per_run THEN "source_cap"
    ELSE IF cost >= max_cost_usd THEN "cost_cap"
    ELSE "go"

\* budget check with `>` in place of `>=` on the number of sources
BudgetVerdict_strict_sources(cost, n_sources) ==
    IF cost >= max_cost_usd THEN "cost_cap"
    ELSE IF n_sources > max_sources_per_run THEN "source_cap"
    ELSE "go"

\* l.143 and l.155: the two checks that precede a researcher call, in order
BudgetVerdict(cost, n_sources) ==
    IF cost >= max_cost_usd THEN "cost_cap"
    ELSE IF n_sources >= max_sources_per_run THEN "source_cap"
    ELSE "go"

\* _run_loop l.140-157: take the next subquery, budget check, source cap
Inner ==
    /\ pc = "inner"
    /\ IF qi >= Len(current_queries)
       THEN /\ pc' = "round_end"
            /\ round_exit' = "exhausted"
            /\ UNCHANGED <<qi, exc, estimated_cost_usd, errors, final_report,
                           sources, status, stop_reason>>
       ELSE /\ qi' = qi + 1
            /\ \/ /\ Raise("CostError")
                  /\ UNCHANGED <<round_exit, estimated_cost_usd, errors,
                                 final_report, sources, status, stop_reason>>
               \/ /\ update_state_cost(client_cost)
                  /\ UNCHANGED exc
                  /\ IF BudgetVerdict(estimated_cost_usd', total_sources) = "cost_cap"
                     THEN /\ errors' = Append(errors, ErrorEntry("cost_cap", round_num, "none"))
                          /\ record_partial("", UrlsOf(page_summaries),
                                            Reason("cost_cap", round_num - 1, "none"))
                          /\ pc' = "finally"
                          /\ UNCHANGED round_exit
                     ELSE /\ IF BudgetVerdict(estimated_cost_usd', total_sources) = "source_cap"
                             THEN pc' = "progress_source_cap" /\ round_exit' = "source_cap"
                             ELSE pc' = "progress_searching" /\ UNCHANGED round_exit
                          /\ UNCHANGED <<errors, final_report, sources, status,
                                         stop_reason>>
    /\ UNCHANGED <<unit_vars, query, on_progress, subqueries, page_summaries, visited_urls,
                   knowledge_gaps, rounds_completed, client_cost, current_queries,
                   round_num, reflection, tracer_vars, calls, verdicts>>

\* research_into_state that appends the summaries without marking their urls
research_into_state_no_visit(results) ==
    LET summaries == research(results, visited_urls, round_num) IN
    /\ page_summaries' = page_summaries \o summaries
    /\ visited_urls' = visited_urls

\* Researcher.research_into_state: add every summary research() returned
research_into_state(results) ==
    LET summaries == research(results, visited_urls, round_num) IN
    /\ page_summaries' = page_summaries \o summaries
    /\ visited_urls' = visited_urls \cup {summaries[i].url : i \in 1..Len(summaries)}

\* _run_loop l.160-166: the researcher span
Research ==
    /\ pc = "research"
    /\ calls' = [calls EXCEPT !.researcher = @ + 1]
    /\ \/ /\ \E e \in StageExceptions : span("researcher", e) /\ Raise(e)
          /\ UNCHANGED <<page_summaries, visited_urls, client_cost, estimated_cost_usd>>
       \/ \E results \in SearchBatches, c \in 0..1 :
            /\ client_cost + c <= MaxClientCost
            /\ research_into_state(results)
            /\ client_cost' = client_cost + c
            /\ \/ /\ update_state_cost(client_cost')
                  /\ span("researcher", "none")
                  /\ pc' = "progress_found"
                  /\ UNCHANGED exc
               \/ /\ span("researcher", "CostError")
                  /\ Raise("CostError")
                  /\ UNCHANGED estimated_cost_usd
    /\ UNCHANGED <<unit_vars, query, on_progress, subqueries, knowledge_gaps, rounds_completed,
                   final_report, sources, status, stop_reason, errors, loop_vars,
                   verdicts>>

\* a last-round test that never fires
MaxRoundsReached_never(r) == FALSE

\* last-round test with `>` in place of `>=`
MaxRoundsReached_off_by_one(r) == r > max_research_rounds

\* l.172: was this the last round
MaxRoundsReached(r) == r >= max_research_rounds

\* a round end that leaves the loop when the source cap cut the round
RoundEnd_source_cap_ends ==
    /\ pc = "round_end"
    /\ rounds_completed' = round_num
    /\ pc' = IF MaxRoundsReached(round_num) THEN "progress_max_rounds"
             ELSE IF round_exit = "source_cap" THEN "loop_exit"
             ELSE "progress_evaluating"
    /\ UNCHANGED <<unit_vars, query, on_progress, exc, subqueries, page_summaries, visited_urls,
                   knowledge_gaps, final_report, sources, status, stop_reason,
                   errors, estimated_cost_usd, client_cost, loop_vars,
                   tracer_vars, calls, verdicts>>

\* round counter accumulated (+=) instead of assigned
RoundEnd_accumulate ==
    /\ pc = "round_end"
    /\ rounds_completed' = rounds_completed + round_num
    /\ pc' = IF MaxRoundsReached(round_num)
             THEN "progress_max_rounds" ELSE "progress_evaluating"
    /\ UNCHANGED <<unit_vars, query, on_progress, exc, subqueries, page_summaries, visited_urls,
                   knowledge_gaps, final_report, sources, status, stop_reason,
                   errors, estimated_cost_usd, client_cost, loop_vars,
                   tracer_vars, calls, verdicts>>

\* _run_loop l.169-174: count the round, stop at max_research_rounds
RoundEnd ==
    /\ pc = "round_end"
    /\ rounds_completed' = round_num
    /\ pc' = IF MaxRoundsReached(round_num)
             THEN "progress_max_rounds" ELSE "progress_evaluating"
    /\ UNCHANGED <<unit_vars, query, on_progress, exc, subqueries, page_summaries, visited_urls,
                   knowledge_gaps, final_report, sources, status, stop_reason,
                   errors, estimated_cost_usd, client_cost, loop_vars,
                   tracer_vars, calls, verdicts>>

\* reflect_on_state that records a follow-up whatever the verdict
reflect_on_state_any_verdict(result) ==
    knowledge_gaps' = Append(knowledge_gaps, OrEmpty(result.follow_up_query))

\* reflect_on_state that keeps only the latest gap
reflect_on_state_keeps_last(result) ==
    knowledge_gaps' = IF result.has_gap /\ OrEmpty(result.follow_up_query) # ""
                      THEN <<result.follow_up_query>>
                      ELSE knowledge_gaps

\* Reflector.reflect_on_state: record the gap when there is one
reflect_on_state(result) ==
    knowledge_gaps' = IF result.has_gap /\ OrEmpty(result.follow_up_query) # ""
                      THEN Append(knowledge_gaps, result.follow_up_query)
                      ELSE knowledge_gaps

\* _run_loop l.177-183: the reflector span
Reflect ==
    /\ pc = "reflect"
    /\ calls' = [calls EXCEPT !.reflector = @ + 1]
    /\ \/ /\ \E e \in StageExceptions : span("reflector", e) /\ Raise(e)
          /\ UNCHANGED <<knowledge_gaps, reflection, verdicts, client_cost,
                         estimated_cost_usd>>
       \/ \E out \in ReflectorOutputs, c \in 0..1 :
            /\ client_cost + c <= MaxClientCost
            /\ page_summaries = << >> => (c = 0 /\ ~out.ok)
            /\ reflect_on_state(reflect(page_summaries, out))
            /\ reflection' = reflect(page_summaries, out)
            /\ verdicts' = Append(verdicts, reflection'.has_gap)
            /\ client_cost' = client_cost + c
            /\ \/ /\ update_state_cost(client_cost')
                  /\ span("reflector", "none")
                  /\ pc' = "after_reflect"
                  /\ UNCHANGED exc
               \/ /\ span("reflector", "CostError")
                  /\ Raise("CostError")
                  /\ UNCHANGED estimated_cost_usd
    /\ UNCHANGED <<unit_vars, query, on_progress, subqueries, page_summaries, visited_urls,
                   rounds_completed, final_report, sources, status, stop_reason,
                   errors, current_queries, round_num, qi, round_exit>>

\* a loop that ignores the reflector's verdict
Continue_always(r) == TRUE

\* l.185: the loop goes on only when the reflector found a gap
Continue(r) == r.has_gap

\* _run_loop l.185-189: act on the verdict
AfterReflect ==
    /\ pc = "after_reflect"
    /\ pc' = IF ~Continue(reflection) THEN "progress_coverage" ELSE "progress_gap"
    /\ UNCHANGED <<unit_vars, query, on_progress, exc, state_vars, client_cost, loop_vars,
                   tracer_vars, calls, verdicts>>

\* a next round that searches the planner's subqueries again, then the follow-up
FollowUpQueries_with_plan(follow_up, subs) == subs \o <<follow_up>>

\* l.191: [follow_up] if follow_up else state.subqueries[:1]
FollowUpQueries(follow_up, subs) ==
    IF follow_up # "" THEN <<follow_up>> ELSE SubSeq(subs, 1, 1)

\* _run_loop l.191 and the loop head l.136: schedule the next round, or
\* leave the loop when range(1, max_research_rounds + 1) is exhausted
NextRound ==
    /\ pc = "next_round"
    /\ current_queries' = FollowUpQueries(OrEmpty(reflection.follow_up_query),
                                          subqueries)
    /\ IF round_num + 1 <= max_research_rounds
       THEN /\ round_num' = round_num + 1
            /\ qi' = 0
            /\ round_exit' = "none"
            /\ pc' = "progress_round"
       ELSE /\ pc' = "loop_exit"
            /\ UNCHANGED <<round_num, qi, round_exit>>
    /\ UNCHANGED <<unit_vars, query, on_progress, exc, state_vars, client_cost, reflection,
                   tracer_vars, calls, verdicts>>

\* a loop exit that checks the cost cap once more before synthesis
LoopExit_checks_cost ==
    /\ pc = "loop_exit"
    /\ IF status = "running" /\ estimated_cost_usd >= max_cost_usd
       THEN /\ record_partial("", UrlsOf(page_summaries),
                              Reason("cost_cap", rounds_completed, "none"))
            /\ pc' = "finally"
       ELSE /\ pc' = IF status = "running" THEN "progress_synthesizing" ELSE "finally"
            /\ UNCHANGED <<final_report, sources, status, stop_reason>>
    /\ UNCHANGED <<unit_vars, query, on_progress, exc, subqueries, page_summaries,
                   visited_urls, knowledge_gaps, rounds_completed, errors,
                   estimated_cost_usd, client_cost, loop_vars, tracer_vars,
                   calls, verdicts>>

\* _run_loop l.193-198 logs and returns; run_research l.90 decides on
\* synthesis
LoopExit ==
    /\ pc = "loop_exit"
    /\ \/ \E e \in LogExceptions : Raise(e)
       \/ /\ pc' = IF status = "running" THEN "progress_synthesizing" ELSE "finally"
          /\ UNCHANGED exc
    /\ UNCHANGED <<unit_vars, query, on_progress, state_vars, client_cost, loop_vars,
                   tracer_vars, calls, verdicts>>

\* synthesize that records the report without its reference list
synthesize_drops_sources(bad_citations) ==
    IF page_summaries = << >>
    THEN /\ record_partial("no sources message", << >>,
                           Reason("no_summaries", 0, "none"))
         /\ UNCHANGED errors
    ELSE /\ errors' = IF bad_citations
                      THEN Append(errors, ErrorEntry("citations", 0, "none"))
                      ELSE errors
         /\ record_success("report", << >>)

\* a selection that keeps every summary
TopK_all(summaries) == summaries

\* synthesize l.85: state.page_summaries[: settings.top_k_summaries]
TopK(summaries) ==
    SubSeq(summaries, 1, IF Len(summaries) < top_k_summaries
                         THEN Len(summaries) ELSE top_k_summaries)

\* synthesize that reports a fallback body as a partial result
synthesize_fallback_is_partial(bad_citations) ==
    IF page_summaries = << >>
    THEN /\ record_partial("no sources message", << >>,
                           Reason("no_summaries", 0, "none"))
         /\ UNCHANGED errors
    ELSE /\ errors' = IF bad_citations
                      THEN Append(errors, ErrorEntry("citations", 0, "none"))
                      ELSE errors
         /\ IF fn_arg.report.ok
            THEN record_success("report", UrlsOf(TopK(page_summaries)))
            ELSE record_partial("report", UrlsOf(TopK(page_summaries)),
                                Reason("fallback", 0, "none"))

\* Synthesizer.synthesize; bad_citations: check_citation_bounds found some
synthesize(bad_citations) ==
    IF page_summaries = << >>
    THEN /\ record_partial("no sources message", << >>,
                           Reason("no_summaries", 0, "none"))
         /\ UNCHANGED errors
    ELSE /\ errors' = IF bad_citations
                      THEN Append(errors, ErrorEntry("citations", 0, "none"))
                      ELSE errors
         /\ record_success("report", UrlsOf(TopK(page_summaries)))

\* run_research l.92-97: the synthesizer span
Synth ==
    /\ pc = "synth"
    /\ calls' = [calls EXCEPT !.synthesizer = @ + 1]
    /\ \/ /\ \E e \in StageExceptions : span("synthesizer", e) /\ Raise(e)
          /\ UNCHANGED <<final_report, sources, status, stop_reason, errors,
                         client_cost, estimated_cost_usd>>
       \/ \E bad \in BOOLEAN, c \in 0..1 :
            /\ client_cost + c <= MaxClientCost
            /\ page_summaries = << >> => (c = 0 /\ ~bad)
            /\ synthesize(bad)
            /\ client_cost' = client_cost + c
            /\ \/ /\ update_state_cost(client_cost')
                  /\ span("synthesizer", "none")
                  /\ pc' = "progress_report"
                  /\ UNCHANGED exc
               \/ /\ span("synthesizer", "CostError")
                  /\ Raise("CostError")
                  /\ UNCHANGED estimated_cost_usd
    /\ UNCHANGED <<unit_vars, query, on_progress, subqueries, page_summaries, visited_urls,
                   knowledge_gaps, rounds_completed, loop_vars, verdicts>>

\* run_research l.100-102: the exception handler
Except ==
    /\ pc = "except"
    /\ IF exc \in BaseExceptions
       THEN UNCHANGED <<errors, status, stop_reason, final_report, sources>>
       ELSE /\ errors' = Append(errors, ErrorEntry("unexpected", 0, exc))
            /\ record_failure(Reason("unexpected", 0, exc))
    /\ pc' = "finally"
    /\ UNCHANGED <<unit_vars, query, on_progress, exc, subqueries, page_summaries, visited_urls,
                   knowledge_gaps, rounds_completed, estimated_cost_usd,
                   client_cost, loop_vars, tracer_vars, calls, verdicts>>

\* Tracer.finish that counts the cited sources instead of the summaries
finish_counts_sources ==
    [status |-> status, n_rounds |-> rounds_completed,
     n_sources |-> Len(sources)]

\* Tracer.finish: copy the summary stats from the state
finish ==
    [status |-> status, n_rounds |-> rounds_completed,
     n_sources |-> total_sources]

\* the file once Tracer.save has returned: it holds the whole document
SavedFile(doc) == [exists |-> TRUE, chunks |-> DocChunks, doc |-> doc]

\* run_research l.104-106: the finally block starts with the cost refresh
\* and tracer.finish; tracer.save comes next. The block is also entered
\* with a BaseException pending (the handler of l.100 did not catch it)
Finally ==
    /\ pc = "finally"
    /\ \/ /\ pc' = "raised" /\ exc' = "CostError"
          /\ UNCHANGED <<estimated_cost_usd, trace>>
       \/ /\ update_state_cost(client_cost)
          /\ trace' = finish
          /\ pc' = "save"
          /\ UNCHANGED exc
    /\ UNCHANGED <<unit_vars, query, on_progress, subqueries, page_summaries, visited_urls,
                   knowledge_gaps, rounds_completed, final_report, sources, status,
                   stop_reason, errors, client_cost, loop_vars, step_counter,
                   spans, calls, verdicts>>

\* tracer.save() writes the file in several system calls, between which a
\* reader in another thread or process runs (src/app.py serves load_traces
\* and run_research from one process): one step per file operation
\* Tracer.save l.179-182: mkdir, then open(path, "w") creates or truncates
SaveOpen ==
    /\ pc = "save"
    /\ \/ /\ trace_file' = [exists |-> TRUE, chunks |-> 0, doc |-> trace]
          /\ pc' = "save_write" /\ UNCHANGED exc
       \/ /\ pc' = "raised" /\ exc' = "OSError"
          /\ UNCHANGED trace_file
    /\ UNCHANGED <<query, on_progress, state_vars, client_cost, loop_vars,
                   tracer_vars, calls, verdicts, fn_arg, fn_ret, loaded>>

\* Tracer.save l.183: json.dump writes the next piece of the document
SaveWrite ==
    /\ pc = "save_write"
    /\ trace_file.chunks < DocChunks
    /\ \/ /\ trace_file' = [trace_file EXCEPT !.chunks = @ + 1]
          /\ UNCHANGED <<pc, exc>>
       \/ /\ pc' = "raised" /\ exc' = "OSError"
          /\ UNCHANGED trace_file
    /\ UNCHANGED <<query, on_progress, state_vars, client_cost, loop_vars,
                   tracer_vars, calls, verdicts, fn_arg, fn_ret, loaded>>

\* Tracer.save l.182-184: the with block closes the file, save returns
SaveClose ==
    /\ pc = "save_write"
    /\ trace_file.chunks = DocChunks
    /\ pc' = "saved"
    /\ UNCHANGED <<query, on_progress, exc, state_vars, client_cost, loop_vars,
                   tracer_vars, calls, verdicts, unit_vars>>

\* dashboard.load_traces l.56-59 in another process: open the file and read
\* what is there now
LoadTraces ==
    /\ loaded' = trace_file
    /\ UNCHANGED <<query, on_progress, pc, exc, state_vars, client_cost,
                   loop_vars, tracer_vars, calls, verdicts, fn_arg, fn_ret,
                   trace_file>>

\* run_research l.108-110: log the path, then return state, or let the
\* pending BaseException go on; print() may raise itself
Return ==
    /\ pc = "saved"
    /\ \/ \E e \in LogExceptions : pc' = "raised" /\ exc' = e
       \/ /\ pc' = IF exc \in BaseExceptions THEN "raised" ELSE "done"
          /\ UNCHANGED exc
    /\ UNCHANGED <<unit_vars, query, on_progress, state_vars, client_cost, loop_vars,
                   tracer_vars, calls, verdicts>>

Next ==
    \/ Validate
    \/ Construct
    \/ MakeStages
    \/ _progress
    \/ Plan
    \/ LoopInit
    \/ Inner
    \/ Research
    \/ RoundEnd
    \/ Reflect
    \/ AfterReflect
    \/ NextRound
    \/ LoopExit
    \/ Synth
    \/ Except
    \/ Finally
    \/ SaveOpen
    \/ SaveWrite
    \/ SaveClose
    \/ Return
    \/ LoadTraces

Spec == Init /\ [][Next]_vars

\* a run that keeps executing: every call returns or raises, so a step that
\* can be taken eventually is
FairSpec == Spec /\ WF_vars(Next)

\* a validated query
ValidQuery == [is_str |-> TRUE, len |-> MIN_QUERY_LENGTH, str_query |-> "ok"]

(* ---------------- Planner.plan on its own -------------------------------- *)

\* the entries of the "queries" array in the LLM's JSON answer
MaxRawQueries == 3
RawQueryTexts == {"dup", " dup ", "DUP", "unique", ""}
PlannerAnswers ==
    {[ok |-> FALSE, queries |-> << >>]} \cup
    {[ok |-> TRUE, queries |-> qs] :
        qs \in UNION {[1..n -> RawQueryTexts] : n \in 0..MaxRawQueries}}

\* planner._parse_queries l.131: strip every entry, drop the empty ones
RECURSIVE _parse_queries(_)
_parse_queries(queries) ==
    IF queries = << >> THEN << >>
    ELSE IF Strip(Head(queries)) # ""
    THEN <<Strip(Head(queries))>> \o _parse_queries(Tail(queries))
    ELSE _parse_queries(Tail(queries))

InitPlan ==
    /\ query = ValidQuery
    /\ on_progress = FALSE
    /\ pc = "call"
    /\ trace = NewTrace
    /\ FreshState
    /\ fn_arg \in PlannerAnswers
    /\ fn_ret = << >>
    /\ trace_file = NoFile
    /\ loaded = NoFile

\* one call planner.plan(state): state.subqueries = decompose(state.query)
PlanAlone ==
    /\ pc = "call"
    /\ pc' = "returned"
    /\ subqueries' = decompose([ok |-> fn_arg.ok,
                                queries |-> _parse_queries(fn_arg.queries)])
    /\ fn_ret' = subqueries'
    /\ UNCHANGED <<query, on_progress, exc, page_summaries, visited_urls,
                   knowledge_gaps, rounds_completed, final_report, sources,
                   status, stop_reason, errors, estimated_cost_usd, client_cost,
                   loop_vars, tracer_vars, calls, verdicts, fn_arg, trace_file,
                   loaded>>

NextPlan == PlanAlone

SpecPlan == InitPlan /\ [][NextPlan]_vars

(* ---------------- Researcher._summarize_result on its own ---------------- *)

\* urls as is_safe_url sees them: a scheme and a host, the host a name or a
\* dotted quad
HostName(n) == [kind |-> "name", name |-> n, ip |-> <<0, 0, 0, 0>>]
HostIp(a, b, c, d) == [kind |-> "ipv4", name |-> "", ip |-> <<a, b, c, d>>]

\* a pattern whose 172 range reaches one octet too far
_BLOCKED_HOSTS_wide_172(host) ==
    IF host.kind = "name"
    THEN Lower(host.name) \in {"localhost", "::1"}
    ELSE \/ host.ip[1] = 127
         \/ host.ip = <<0, 0, 0, 0>>
         \/ host.ip[1] = 10
         \/ host.ip[1] = 172 /\ host.ip[2] \in 16..32
         \/ host.ip[1] = 192 /\ host.ip[2] = 168

\* guardrails._BLOCKED_HOSTS: the pattern matches the whole host, in any
\* letter case (re.IGNORECASE)
_BLOCKED_HOSTS(host) ==
    IF host.kind = "name"
    THEN Lower(host.name) \in {"localhost", "::1"}
    ELSE \/ host.ip[1] = 127
         \/ host.ip = <<0, 0, 0, 0>>
         \/ host.ip[1] = 10
         \/ host.ip[1] = 172 /\ host.ip[2] \in 16..31
         \/ host.ip[1] = 192 /\ host.ip[2] = 168

\* str.lower() on a host
LowerHost(host) ==
    IF host.kind = "name" THEN HostName(Lower(host.name)) ELSE host

\* is_safe_url l.119-120: the text between :// and the first /, up to its
\* first colon, lowercased
ExtractHost(url) == LowerHost(Head(url.authority))

\* guardrails.is_safe_url. A url is the text before :// (scheme), the text
\* up to the first / split at its colons (authority), whether a path follows,
\* and whether whitespace surrounds it (padded; strip() removes it)
is_safe_url(url) ==
    /\ url.scheme \in {"http", "https"}
    /\ ExtractHost(url) # HostName("")
    /\ ~_BLOCKED_HOSTS(ExtractHost(url))

SampleUrls ==
    [padded : {FALSE},
     scheme : {"https", "http", "file"},
     authority : {<<HostName("example.com")>>, <<HostName("localhost")>>,
                  <<HostIp(10, 0, 0, 1)>>, <<HostIp(172, 32, 0, 1)>>},
     path : {TRUE}]

\* what fetch_page can return: a failure, or a page of at least 200
\* characters from one of the two tiers
FetchResults ==
    {FetchFailed} \cup
    [success : {TRUE}, words : {1, 29, 30, 100}, source : {"jina", "trafilatura"}]

SummarizeInputs ==
    [url : SampleUrls, title : {<< >>}, words : {0, 29, 30, 99, 100},
     fetch : FetchResults, summary_ok : BOOLEAN]

InitSummarize ==
    /\ query = ValidQuery
    /\ on_progress = FALSE
    /\ pc = "call"
    /\ trace = NewTrace
    /\ FreshState
    /\ fn_arg \in SummarizeInputs
    /\ fn_ret = [fetched |-> << >>, summary |-> << >>]
    /\ trace_file = NoFile
    /\ loaded = NoFile

\* one call researcher._summarize_result(result, subquery, 1)
Summarize ==
    /\ pc = "call"
    /\ pc' = "returned"
    /\ fn_ret' = [fetched |-> FetchCalls(fn_arg),
                  summary |-> _summarize_result(fn_arg, 1)]
    /\ UNCHANGED <<query, on_progress, exc, state_vars, client_cost, loop_vars,
                   tracer_vars, calls, verdicts, fn_arg, trace_file, loaded>>

NextSummarize == Summarize

SpecSummarize == InitSummarize /\ [][NextSummarize]_vars

(* ---------------- Synthesizer.synthesize and its citation check ---------- *)

\* the numbers n of the [n] the LLM wrote in the report body, in order
MaxBodyCitations == 3
CitationValues == 0..(top_k_summaries + 1)
BodyCitations == UNION {[1..n -> CitationValues] : n \in 0..MaxBodyCitations}

\* the [n] a page title can hold: none, one that is a source's number, one
\* that is no citation at all (a year, a footnote mark)
TitleCitations == {<< >>, <<1>>, <<top_k_summaries + 2>>}

\* the [n] a url can hold: none, an index ('.../a[0]'), a query parameter
\* ('...?filter[9]=new')
UrlCitations == {<< >>, <<0>>, <<top_k_summaries + 2>>}

\* _build_references: entry [i] for the i-th selected summary, with its
\* title and, on the next line, its url
_build_references(summaries) ==
    [i \in 1..Len(summaries) |->
        [n |-> i, title |-> summaries[i].title, url |-> summaries[i].url]]

\* the [n] of a references block, in order: each entry's number, then those
\* of its title, then those of its url
RECURSIVE ReferenceCitations(_)
ReferenceCitations(references) ==
    IF references = << >> THEN << >>
    ELSE <<Head(references).n>> \o Head(references).title
            \o Head(references).url.cites
            \o ReferenceCitations(Tail(references))

\* final_report l.97: the [n] of the body followed by those of the
\* references block built from the selected summaries
ReportCitations(body, summaries) ==
    body \o ReferenceCitations(_build_references(summaries))

\* sorted(found) for a finite set of integers
RECURSIVE Sorted(_)
Sorted(found) ==
    IF found = {} THEN << >>
    ELSE LET least == CHOOSE x \in found : \A y \in found : x <= y
         IN <<least>> \o Sorted(found \ {least})

\* citation check that lets [0] pass (`n < 0` in place of `n < 1`)
check_citation_bounds_zero_ok(citations, n_sources) ==
    IF citations = << >> \/ n_sources <= 0 THEN << >>
    ELSE Sorted({citations[i] : i \in {k \in 1..Len(citations) :
                    citations[k] < 0 \/ citations[k] > n_sources}})

\* guardrails.check_citation_bounds, on the citation numbers of the report
check_citation_bounds(citations, n_sources) ==
    IF citations = << >> \/ n_sources <= 0 THEN << >>
    ELSE Sorted({citations[i] : i \in {k \in 1..Len(citations) :
                    citations[k] < 1 \/ citations[k] > n_sources}})

\* PageSummary objects for the urls 1..n, as the researcher leaves them
SummariesOf(n) ==
    [i \in 1..n |-> [url |-> [id |-> i, cites |-> << >>], title |-> << >>,
                     round_number |-> 1, source |-> "tavily"]]

\* how one page is written: [n] in its title, or [n] in its url, or in
\* neither
PageTexts ==
    [title : TitleCitations, cites : {<< >>}] \cup
    [title : {<< >>}, cites : UrlCitations]

\* the lists of summaries for the pages 1..k, k <= n, under every choice of
\* the [n] in their titles and urls
TitledSummaries(n) ==
    {[i \in 1..Len(texts) |->
        [url |-> [id |-> i, cites |-> texts[i].cites], title |-> texts[i].title,
         round_number |-> 1, source |-> "tavily"]] :
     texts \in UNION {[1..k -> PageTexts] : k \in 1..n}}

\* len(sources) in synthesize l.85-86
NumSources == IF Len(page_summaries) < top_k_summaries
              THEN Len(page_summaries) ELSE top_k_summaries

InitCite ==
    /\ query = ValidQuery
    /\ on_progress = FALSE
    /\ pc = "call"
    /\ trace = NewTrace
    /\ \E l \in TitledSummaries(NumUrls) : StateWith(l)
    /\ fn_arg \in BodyCitations
    /\ fn_ret = << >>
    /\ trace_file = NoFile
    /\ loaded = NoFile

\* one call synthesizer.synthesize(state) whose report body cites fn_arg
SynthesizeCited ==
    /\ pc = "call"
    /\ pc' = "returned"
    /\ fn_ret' = check_citation_bounds(
                    ReportCitations(fn_arg, TopK(page_summaries)), NumSources)
    /\ synthesize(fn_ret' # << >>)
    /\ UNCHANGED <<query, on_progress, exc, subqueries, page_summaries,
                   visited_urls, knowledge_gaps, rounds_completed,
                   estimated_cost_usd, client_cost, loop_vars, tracer_vars,
                   calls, verdicts, fn_arg, trace_file, loaded>>

NextCite == SynthesizeCited

SpecCite == InitCite /\ [][NextCite]_vars

(* ---------------- guardrails.is_safe_url on its own ----------------------- *)

\* hosts on either side of every blocked range, in both letter cases
SampleHosts ==
    {HostName("example.com"), HostName("Example.COM"), HostName("localhost"),
     HostName("LOCALHOST"), HostName(""),
     HostIp(127, 0, 0, 2), HostIp(128, 0, 0, 1), HostIp(0, 0, 0, 0),
     HostIp(0, 0, 0, 1), HostIp(10, 0, 0, 1), HostIp(11, 0, 0, 1),
     HostIp(172, 15, 0, 1), HostIp(172, 16, 0, 1), HostIp(172, 31, 255, 255),
     HostIp(172, 32, 0, 1), HostIp(192, 168, 1, 1), HostIp(192, 169, 1, 1),
     HostIp(193, 168, 1, 1)}

\* a bare host, a host with a port, and the text ::1
Authorities ==
    {<<h>> : h \in SampleHosts}
      \cup {<<h, HostName("8080")>> : h \in SampleHosts}
      \cup {<<HostName(""), HostName(""), HostName("1")>>}

UrlTexts ==
    [padded : BOOLEAN,
     scheme : {"http", "https", "HTTP", "file", "ftp", ""},
     authority : Authorities,
     path : BOOLEAN]

InitSafeUrl ==
    /\ query = ValidQuery
    /\ on_progress = FALSE
    /\ pc = "call"
    /\ trace = NewTrace
    /\ FreshState
    /\ fn_arg \in UrlTexts
    /\ fn_ret = FALSE
    /\ trace_file = NoFile
    /\ loaded = NoFile

\* one call is_safe_url(url)
CheckUrl ==
    /\ pc = "call"
    /\ pc' = "returned"
    /\ fn_ret' = is_safe_url(fn_arg)
    /\ UNCHANGED <<query, on_progress, exc, state_vars, client_cost, loop_vars,
                   tracer_vars, calls, verdicts, fn_arg, trace_file, loaded>>

NextSafeUrl == CheckUrl

SpecSafeUrl == InitSafeUrl /\ [][NextSafeUrl]_vars

(* ---------------- Synthesizer.synthesize and the text of its report ------- *)

\* _generate_report l.168: the literal 100
MinReportChars == 100
\* response lengths tried on either side of MinReportChars
ReportMargin == 1

\* the answer to the outline call: the call raises, the text yields no
\* section, or it yields some
OutlineAnswers == {"fail", "unusable", "ok"}

\* the answer to the report call: chars is the length of the trimmed text,
\* padding the whitespace around it in the raw response
ReportAnswers ==
    [ok : BOOLEAN,
     chars : {0} \cup ((MinReportChars - ReportMargin)..(MinReportChars + ReportMargin)),
     padding : {0, 2}]

\* every list of page summaries with distinct urls, in any order
SummaryLists(n) ==
    {l \in UNION {[1..k -> [url : Urls, title : {<< >>}, round_number : {1},
                            source : {"tavily"}]] :
                    k \in 0..n} :
        \A i, j \in 1..Len(l) : i # j => l[i].url # l[j].url}

\* _generate_outline l.130-141: the parsed sections, or the generic heading
_generate_outline(answer) == IF answer = "ok" THEN "sections" ELSE "generic"

\* _generate_report accepting a text of exactly MinReportChars characters
_generate_report_at_least(answer) ==
    IF answer.ok /\ answer.chars >= MinReportChars THEN "llm" ELSE "fallback"

\* _generate_report l.163-174: _extract_text trims the response; the text is
\* the body if longer than 100 characters, else the summary dump
_generate_report(answer) ==
    IF answer.ok /\ answer.chars > MinReportChars THEN "llm" ELSE "fallback"

SynthesizeInputs ==
    [outline : OutlineAnswers, report : ReportAnswers, bad_citations : BOOLEAN]

InitSynthesize ==
    /\ query = ValidQuery
    /\ on_progress = FALSE
    /\ pc = "call"
    /\ trace = NewTrace
    /\ \E l \in SummaryLists(NumUrls) \ {<< >>} : StateWith(l)
    /\ fn_arg \in SynthesizeInputs
    /\ fn_ret = [sections |-> "", body |-> "", references |-> << >>]
    /\ trace_file = NoFile
    /\ loaded = NoFile

\* one call synthesizer.synthesize(state); fn_ret is the text of final_report
\* (l.96-97: body, then the references) and the outline
SynthesizeAlone ==
    /\ pc = "call"
    /\ pc' = "returned"
    /\ fn_ret' = [sections |-> _generate_outline(fn_arg.outline),
                  body |-> _generate_report(fn_arg.report),
                  references |-> _build_references(TopK(page_summaries))]
    /\ synthesize(fn_arg.bad_citations)
    /\ UNCHANGED <<query, on_progress, exc, subqueries, page_summaries,
                   visited_urls, knowledge_gaps, rounds_completed,
                   estimated_cost_usd, client_cost, loop_vars, tracer_vars,
                   calls, verdicts, fn_arg, trace_file, loaded>>

NextSynthesize == SynthesizeAlone

SpecSynthesize == InitSynthesize /\ [][NextSynthesize]_vars

(* ---------------- Reflector.reflect on its own ---------------------------- *)

\* follow_up_query fields an LLM answer can carry
FollowUpTexts ==
    {"missing", None, "", " ", "null", "NULL", "None", "nOnE", " none ",
     "follow up", " follow up "}

ReflectInputs ==
    [ok : BOOLEAN, json : {"object", "array", "invalid"}, follow_up : FollowUpTexts]

InitReflect ==
    /\ query = ValidQuery
    /\ on_progress = FALSE
    /\ pc = "call"
    /\ trace = NewTrace
    /\ \E n \in 1..NumUrls : StateWith(SummariesOf(n))
    /\ fn_arg \in ReflectInputs
    /\ fn_ret = [has_gap |-> FALSE, follow_up_query |-> None]
    /\ trace_file = NoFile
    /\ loaded = NoFile

\* one call reflector.reflect(query, state.page_summaries, rounds_completed)
ReflectAlone ==
    /\ pc = "call"
    /\ pc' = "returned"
    /\ fn_ret' = reflect(page_summaries, fn_arg)
    /\ UNCHANGED <<query, on_progress, exc, state_vars, client_cost, loop_vars,
                   tracer_vars, calls, verdicts, fn_arg, trace_file, loaded>>

NextReflect == ReflectAlone

SpecReflect == InitReflect /\ [][NextReflect]_vars

(* ---------------- Tracer.save next to a reader of the trace file --------- *)

\* the summary stats Tracer.finish can have left in the trace; the status
\* is still running when a BaseException is leaving run_research
FinishedTraces ==
    [status : {"running", "success", "partial", "failed"},
     n_rounds : 0..max_research_rounds, n_sources : 0..NumUrls]

\* Tracer.save on its own, from any finished tracer: the file is absent, or
\* complete from an earlier save under the same run_id
InitSave ==
    /\ query = ValidQuery
    /\ on_progress = FALSE
    /\ pc = "save"
    /\ trace \in FinishedTraces
    /\ FreshState
    /\ fn_arg = None
    /\ fn_ret = None
    /\ trace_file \in {NoFile, SavedFile(trace)}
    /\ loaded = NoFile

NextSave ==
    \/ SaveOpen
    \/ SaveWrite
    \/ SaveClose
    \/ LoadTraces

SpecSave == InitSave /\ [][NextSave]_vars

\* the entry of run_research alone (l.64-74), over queries of every length
\* around the limits
NextValidation ==
    \/ Validate
    \/ Construct

SpecValidation == InitFor(ValidationInputs) /\ [][NextValidation]_vars

(* ======================= properties ==================================== *)

Last(seq) == seq[Len(seq)]
Terminal == {"success", "partial", "failed"}
BudgetCheck == pc = "inner" /\ qi < Len(current_queries)
NoGapVerdict == verdicts # << >> /\ ~Last(verdicts)
SpansNamed(n) == {i \in 1..Len(spans) : spans[i].name = n}

\* C1: run_research always returns: no exception of a stage, of a client
\* call (LLMClient(), update_state_cost) or of tracer.finish / tracer.save
\* leaves run_research, and every such failure ends as status = failed with
\* an entry in errors.
C1_NeverPropagates ==
    /\ pc # "raised"
    /\ (pc = "done" /\ exc # "none") =>
          /\ status = "failed"
          /\ \E i \in 1..Len(errors) : errors[i].exc = exc

\* C2: when run_research returns, status is success, partial or failed,
\* never running.
C2_TerminalStatusOnReturn == pc = "done" => status \in Terminal

C2_Witness == pc = "done" /\ status = "partial" /\ calls.synthesizer = 1

\* C3: status changes at most once in a run: once it has left running, no
\* later step changes it.
C3_StatusChangesOnce == [][status # "running" => status' = status]_vars

\* C4: a budget check that finds the refreshed cost >= max_cost_usd in round
\* r stops the run at once: partial, empty report, sources = urls of all
\* page summaries, stop_reason = cost cap after round r-1 = rounds_completed,
\* and no stage is invoked afterwards.
C4_CostCapStops ==
    /\ [][(BudgetCheck /\ pc' # "except" /\ estimated_cost_usd' >= max_cost_usd)
            => /\ status' = "partial"
               /\ final_report' = ""
               /\ sources' = UrlsOf(page_summaries)
               /\ stop_reason' = Reason("cost_cap", round_num - 1, "none")
               /\ stop_reason'.round = rounds_completed
               /\ pc' = "finally"]_vars
    /\ [][stop_reason.kind = "cost_cap" => calls' = calls]_vars
    /\ [](stop_reason.kind = "cost_cap" =>
            /\ pc \in {"finally", "save", "save_write", "saved", "done", "raised"}
            /\ status = "partial"
            /\ final_report = ""
            /\ sources = UrlsOf(page_summaries))

C4_Witness ==
    /\ pc = "done"
    /\ stop_reason = Reason("cost_cap", 1, "none")
    /\ rounds_completed = 1
    /\ Len(sources) >= 1

\* C5: the stops are arbitrated cost cap, then source cap, then max rounds,
\* then the reflector's verdict: with both caps reached at one check the run
\* ends partial without synthesis; the source cap, the round limit and a
\* no-gap verdict leave the status running and the run goes on to synthesis.
C5_StopArbitration ==
    /\ [][(BudgetCheck /\ pc' # "except" /\ estimated_cost_usd' >= max_cost_usd
             /\ total_sources >= max_sources_per_run)
            => (status' = "partial" /\ pc' = "finally")]_vars
    /\ [][(BudgetCheck /\ pc' # "except" /\ estimated_cost_usd' < max_cost_usd
             /\ total_sources >= max_sources_per_run)
            => (status' = "running" /\ pc' = "progress_source_cap")]_vars
    /\ [][(pc = "round_end" /\ round_num >= max_research_rounds)
            => (pc' = "progress_max_rounds" /\ status' = "running"
                /\ calls' = calls)]_vars
    /\ [][(pc \in {"progress_max_rounds", "progress_coverage"} /\ pc' # "except")
            => pc' = "loop_exit"]_vars
    /\ [][(pc = "loop_exit" /\ pc' # "except") => pc' = "progress_synthesizing"]_vars
    /\ [][(pc = "progress_synthesizing" /\ pc' # "except") => pc' = "synth"]_vars
    /\ []((pc = "done" /\ status # "failed")
            => calls.synthesizer = IF stop_reason.kind = "cost_cap" THEN 0 ELSE 1)

C5_Witness ==
    /\ pc = "finally"
    /\ stop_reason.kind = "cost_cap"
    /\ status = "partial"
    /\ total_sources >= max_sources_per_run
    /\ calls.synthesizer = 0

\* C6: no researcher call starts with len(page_summaries) >= max_sources_per_run;
\* reaching the source cap only ends the round's subquery loop, with status
\* still running, and unless a cost-cap stop or an exception follows the
\* synthesizer is invoked.
C6_SourceCapIsSoft ==
    /\ [][calls'.researcher # calls.researcher
            => total_sources < max_sources_per_run]_vars
    /\ [][(BudgetCheck /\ round_exit' = "source_cap")
            => /\ pc' = "progress_source_cap"
               /\ UNCHANGED <<state_vars, calls, round_num>>]_vars
    /\ [][(pc = "progress_source_cap" /\ pc' # "except") => pc' = "round_end"]_vars
    /\ [](round_exit = "source_cap" => status \in {"running", "success", "failed"}
                                       \/ stop_reason.kind = "cost_cap")
    /\ []((pc = "done" /\ round_exit = "source_cap" /\ exc = "none"
             /\ stop_reason.kind # "cost_cap")
            => (calls.synthesizer = 1 /\ status = "success"))

C6_Witness ==
    /\ pc = "done"
    /\ round_exit = "source_cap"
    /\ status = "success"
    /\ calls.synthesizer = 1

\* C7: max_sources_per_run is a hard cap: len(page_summaries) never exceeds
\* it (a researcher call starting with k summaries adds at most cap - k).
C7_HardSourceCap == Len(page_summaries) <= max_sources_per_run

\* C8: a run in which every reflection reports a gap, the cost cap is never
\* reached and no exception is raised completes max_research_rounds rounds,
\* invokes the reflector max_research_rounds - 1 times (never in the final
\* round) and the synthesizer once, and ends success if it has a summary.
C8_MaxRounds ==
    /\ []((pc = "done" /\ validate_query(query) = "ok" /\ exc = "none"
             /\ stop_reason.kind # "cost_cap"
             /\ \A i \in 1..Len(verdicts) : verdicts[i])
            => /\ rounds_completed = max_research_rounds
               /\ calls.reflector = max_research_rounds - 1
               /\ calls.synthesizer = 1
               /\ Cardinality(SpansNamed("synthesizer")) = 1
               /\ (Len(page_summaries) >= 1 => status = "success"))
    /\ [][calls'.reflector # calls.reflector
            => round_num < max_research_rounds]_vars

C8_Witness ==
    /\ pc = "done"
    /\ exc = "none"
    /\ verdicts = [i \in 1..(max_research_rounds - 1) |-> TRUE]
    /\ rounds_completed = max_research_rounds
    /\ status = "success"

\* C9: after a no-gap verdict at the end of round r < max_research_rounds
\* neither the researcher nor the reflector (nor the planner) is invoked
\* again, rounds_completed stays r, and without an exception the synthesizer
\* runs; a no-gap verdict after round 1 gives one reflector span and
\* rounds_completed = 1.
C9_NoGapStops ==
    /\ [][NoGapVerdict
            => /\ calls'.researcher = calls.researcher
               /\ calls'.reflector = calls.reflector
               /\ calls'.planner = calls.planner
               /\ rounds_completed' = rounds_completed]_vars
    /\ [](NoGapVerdict
            => /\ rounds_completed = Len(verdicts)
               /\ rounds_completed < max_research_rounds
               /\ Cardinality(SpansNamed("reflector")) = rounds_completed)
    /\ []((NoGapVerdict /\ pc = "done" /\ exc = "none") => calls.synthesizer = 1)

C9_Witness ==
    /\ pc = "done"
    /\ verdicts = <<FALSE>>
    /\ rounds_completed = 1
    /\ Cardinality(SpansNamed("reflector")) = 1
    /\ calls.synthesizer = 1

\* C10: rounds_completed starts at 0, never decreases, never exceeds
\* max_research_rounds, and becomes r only when round r has run through all
\* its scheduled subqueries or was cut short by the source cap.
C10_RoundsCompleted ==
    /\ [](rounds_completed \in 0..max_research_rounds)
    /\ [](pc = "start" => rounds_completed = 0)
    /\ [][rounds_completed' # rounds_completed
            => /\ rounds_completed' = rounds_completed + 1
               /\ rounds_completed' = round_num
               /\ \/ round_exit = "source_cap"
                  \/ round_exit = "exhausted" /\ qi = Len(current_queries)]_vars

C10_Witness ==
    /\ rounds_completed = max_research_rounds
    /\ round_exit = "exhausted"
    /\ calls.researcher = Len(subqueries) + max_research_rounds - 1

\* C11: visited_urls is exactly the set of urls of the entries of
\* page_summaries, in every state of a run (between stage invocations and at
\* return): a url is visited iff a summary for it is in the list.
C11_VisitedIsSummaryUrls ==
    visited_urls = {page_summaries[i].url : i \in 1..Len(page_summaries)}

C11_Witness ==
    /\ calls.researcher >= 2
    /\ Len(page_summaries) >= 2
    /\ Cardinality(visited_urls) >= 2
    /\ page_summaries[1].round_number # Last(page_summaries).round_number

\* C12: at the return of every run, final_report non-empty implies sources
\* non-empty, and len(sources) <= len(page_summaries).
C12_ReportHasSources ==
    pc = "done" =>
        /\ (final_report # "" => sources # << >>)
        /\ Len(sources) <= Len(page_summaries)

\* C12 (amended): at the return of every run, final_report non-empty implies
\* sources non-empty whenever page_summaries is non-empty; a run that
\* synthesizes with no page summaries returns the fixed "No sources were
\* collected" message with sources empty; len(sources) <= len(page_summaries).
C12_ReportHasSourcesIfSummaries ==
    pc = "done" =>
        /\ ((final_report # "" /\ page_summaries # << >>) => sources # << >>)
        /\ ((final_report # "" /\ page_summaries = << >>)
              => (final_report = "no sources message" /\ sources = << >>))
        /\ Len(sources) <= Len(page_summaries)

C12_Witness ==
    /\ pc = "done"
    /\ final_report = "report"
    /\ Len(sources) >= 1
    /\ Len(sources) < Len(page_summaries)

\* C13: whenever run_research returns status = failed, final_report is empty
\* and errors is non-empty.
C13_FailedHasNoReport ==
    (pc = "done" /\ status = "failed") => (final_report = "" /\ errors # << >>)

\* C14: whenever run_research returns status = partial, a report was
\* produced (final_report is non-empty) and the cost cap fired during the run.
C14_PartialHasReport ==
    (pc = "done" /\ status = "partial")
        => /\ final_report # ""
           /\ \E i \in 1..Len(errors) : errors[i].kind = "cost_cap"

\* C15: stop_reason is written exactly once per run, at the step where status
\* leaves running, whatever the terminal status (success, partial, failed);
\* never while status stays running, never again afterwards.
C15_StopReasonOnce ==
    [][(status = "running" /\ status' # "running") <=> stop_reason' # stop_reason]_vars

\* C15 (amended): stop_reason is written exactly at the steps that set status
\* to partial or failed; record_success does not write it, so it is empty
\* while status is running or success and non-empty once status is partial
\* or failed.
C15_StopReasonWithPartialOrFailed ==
    /\ [][stop_reason' # stop_reason
            <=> (status' # status /\ status' \in {"partial", "failed"})]_vars
    /\ [](status \in {"running", "success"} <=> stop_reason = NoReason)

C15_Witness ==
    /\ pc = "done"
    /\ status = "success"
    /\ stop_reason = NoReason
    /\ final_report = "report"

\* a stage invocation has raised inside its span
StageRaised == exc \in StageExceptions /\ calls.planner >= 1
AfterHandler == {"finally", "save", "save_write", "saved", "done", "raised"}

\* C16: when a stage invocation raises inside its span, that span is recorded
\* with status = error and a non-empty error string, no later stage is
\* invoked, and the run ends failed with final_report = "" and an errors
\* entry that names the exception's class.
C16_StageFailure ==
    /\ [](StageRaised
            => /\ spans # << >>
               /\ Last(spans).status = "error"
               /\ Last(spans).error # ""
               /\ Last(spans).error = exc
               /\ Len(spans) = calls.planner + calls.researcher
                                 + calls.reflector + calls.synthesizer)
    /\ [][StageRaised => calls' = calls]_vars
    /\ []((StageRaised /\ pc \in AfterHandler)
            => /\ status = "failed"
               /\ final_report = ""
               /\ \E i \in 1..Len(errors) :
                     errors[i] = ErrorEntry("unexpected", 0, exc))

\* C17: on every run that passes validation, whatever its terminal status,
\* tracer.finish(state) and tracer.save() run before the return and after the
\* last change of status: the file {run_id}.json holds the whole document,
\* and the status, n_rounds and n_sources persisted in it (and held by the
\* tracer) equal the returned status, rounds_completed and
\* len(page_summaries).
C17_TraceMatchesState ==
    /\ []((pc = "done" /\ validate_query(query) = "ok")
            => /\ trace_file.exists
               /\ trace_file.chunks = DocChunks
               /\ trace_file.doc.status = status
               /\ trace_file.doc.n_rounds = rounds_completed
               /\ trace_file.doc.n_sources = Len(page_summaries)
               /\ trace_file.doc = trace)
    /\ [][trace' # trace => (pc = "finally" /\ status' = status)]_vars
    /\ [][trace_file' # trace_file
            => (pc \in {"save", "save_write"} /\ status' = status)]_vars
    /\ [][trace.status # "running" => status' = status]_vars
    /\ [][trace_file.exists => status' = status]_vars

C17_Witness ==
    /\ pc = "done"
    /\ trace_file = SavedFile(trace)
    /\ loaded.exists /\ loaded.chunks < DocChunks
    /\ trace_file.doc.status = "failed"
    /\ trace_file.doc.n_rounds >= 1
    /\ trace_file.doc.n_sources > Len(sources)

\* C18: an exception raised by the on_progress callback is swallowed: after
\* every emission the run goes on with the statement that follows it, with
\* no exception pending and the status untouched.
C18_CallbackSwallowed ==
    [][(pc \in DOMAIN ProgressNext /\ exc' \notin LogExceptions)
         => (pc' = ProgressNext[pc] /\ exc' = exc /\ status' = status)]_vars

\* the queries C19 says are rejected, and the message each one gets
QueryRejected ==
    \/ ~query.is_str
    \/ query.len = 0
    \/ query.len < 10
    \/ query.len > 500
RejectionMessage ==
    IF ~query.is_str THEN "not_string"
    ELSE IF query.len = 0 THEN "empty"
    ELSE IF query.len < 10 THEN "too_short"
    ELSE "too_long"

\* C19: a query that is not a string, is empty or whitespace-only, or whose
\* stripped length is below 10 or above 500 is rejected (10 and 500 are
\* accepted): the run returns at once with status = failed and the
\* validation message in errors, and neither the client, the tracer nor any
\* stage is constructed or called; every other query passes validation.
C19_InvalidQueryRejected ==
    /\ [][(pc = "start" /\ QueryRejected) => pc' = "done"]_vars
    /\ []((pc # "start" /\ QueryRejected)
            => /\ pc = "done"
               /\ status = "failed"
               /\ errors = <<ErrorEntry(RejectionMessage, 0, "ValueError")>>
               /\ stop_reason = Reason("invalid_query", 0, "ValueError")
               /\ calls = [planner |-> 0, researcher |-> 0, reflector |-> 0,
                           synthesizer |-> 0]
               /\ spans = << >>
               /\ step_counter = 0
               /\ client_cost = 0
               /\ trace_file = NoFile)
    /\ []((pc # "start" /\ ~QueryRejected)
            => /\ stop_reason.kind # "invalid_query"
               /\ \A i \in 1..Len(errors) : errors[i].exc # "ValueError")
    /\ [][(pc = "start" /\ ~QueryRejected) => pc' = "construct"]_vars

\* C20: Tracer.span finishes its span on both exits: status = success when
\* the block completes, status = error with the exception as error text when
\* the block raises, and then the same exception reaches the caller; no span
\* is left unfinished once its block has exited.
C20_SpanFinished ==
    /\ [](\A i \in 1..Len(spans) :
            /\ spans[i].finished
            /\ spans[i].step = i
            /\ \/ spans[i].status = "success" /\ spans[i].error = ""
               \/ spans[i].status = "error" /\ spans[i].error # "")
    /\ [][Len(spans') # Len(spans)
            => /\ Len(spans') = Len(spans) + 1
               /\ SubSeq(spans', 1, Len(spans)) = spans
               /\ IF Last(spans').status = "error"
                  THEN pc' = "except" /\ exc' = Last(spans').error
                  ELSE pc' # "except" /\ exc' = exc]_vars

StageNames == {"planner", "researcher", "reflector", "synthesizer"}

\* C21: the trace holds exactly one span per stage invocation (one planner
\* span, one researcher span per researcher call, one reflector span per
\* reflector call, at most one synthesizer span); spans are kept in creation
\* order and the i-th span created has step = i, so steps are 1, 2, 3, ...
\* without gaps.
C21_OneSpanPerInvocation ==
    /\ [](\A n \in StageNames : Cardinality(SpansNamed(n)) = calls[n])
    /\ [](calls.planner <= 1 /\ calls.synthesizer <= 1)
    /\ [](Len(spans) = step_counter)
    /\ [](\A i \in 1..Len(spans) : spans[i].step = i /\ spans[i].name \in StageNames)
    /\ [][calls' # calls
            => /\ Len(spans') = Len(spans) + 1
               /\ SubSeq(spans', 1, Len(spans)) = spans
               /\ calls'[Last(spans').name] = calls[Last(spans').name] + 1]_vars
    /\ [][spans' # spans => calls' # calls]_vars

C21_Witness ==
    /\ pc = "done"
    /\ Len(spans) >= 5
    /\ spans[1].name = "planner"
    /\ calls.researcher >= 2
    /\ calls.reflector >= 1
    /\ Last(spans).name = "synthesizer"
    /\ Last(spans).step = Len(spans)

\* C22: Tracer.save is atomic for a concurrent reader of {run_id}.json: the
\* reader finds no file or the complete trace document, never a partially
\* written one.
C22_AtomicSave == loaded.exists => loaded.chunks = DocChunks

\* C23: fetch_page is never called with a url for which is_safe_url is
\* false: every url the researcher fetches has passed is_safe_url.
C23_FetchOnlySafeUrls ==
    pc = "returned" =>
        \A i \in 1..Len(fn_ret.fetched) : is_safe_url(fn_ret.fetched[i])

\* C24: after Planner.plan, state.subqueries is non-empty (exactly [query]
\* when the LLM call fails or yields no usable query) and deduplicated: no
\* two subqueries are equal once trimmed and lowercased.
C24_SubqueriesDeduplicated ==
    pc = "returned" =>
        /\ subqueries # << >>
        /\ (~fn_arg.ok \/ _parse_queries(fn_arg.queries) = << >>)
              => subqueries = <<QueryText>>
        /\ \A i, j \in 1..Len(subqueries) :
              i # j => Lower(Strip(subqueries[i])) # Lower(Strip(subqueries[j]))

\* C25: after synthesis with N = len(sources) >= 1 every citation [n] of
\* final_report has 1 <= n <= N or is listed in the out-of-bounds diagnostic
\* appended to errors; [N] is in bounds, [0] and [N+1] are not; the listed
\* values are sorted and distinct; the report is returned with status =
\* success all the same.
C25_CitationsInBoundsOrListed ==
    pc = "returned" =>
        /\ Len(sources) >= 1
        /\ \A i \in 1..Len(ReportCitations(fn_arg, TopK(page_summaries))) :
              LET n == ReportCitations(fn_arg, TopK(page_summaries))[i] IN
                \/ 1 <= n /\ n <= Len(sources)
                \/ /\ \E j \in 1..Len(fn_ret) : fn_ret[j] = n
                   /\ errors = <<ErrorEntry("citations", 0, "none")>>
        /\ \A j \in 1..Len(fn_ret) :
              /\ fn_ret[j] < 1 \/ fn_ret[j] > Len(sources)
              /\ \E i \in 1..Len(ReportCitations(fn_arg, TopK(page_summaries))) :
                    ReportCitations(fn_arg, TopK(page_summaries))[i] = fn_ret[j]
              /\ j > 1 => fn_ret[j - 1] < fn_ret[j]
        /\ (fn_ret = << >>) <=> (errors = << >>)
        /\ status = "success"
        /\ final_report = "report"

C25_Witness ==
    /\ pc = "returned"
    /\ Len(sources) = top_k_summaries
    /\ page_summaries[1].title = <<top_k_summaries + 2>>
    /\ page_summaries[top_k_summaries].url.cites = <<0>>
    /\ fn_arg = <<top_k_summaries + 1, top_k_summaries>>
    /\ fn_ret = <<0, top_k_summaries + 1, top_k_summaries + 2>>
    /\ status = "success"

\* C26: estimated_cost_usd never decreases during a run: no step (cost
\* refresh before a budget check or after a stage) lowers it, and add_cost
\* with non-negative token counts would not lower it either.
C26_CostNeverDecreases ==
    /\ [][estimated_cost_usd' >= estimated_cost_usd]_vars
    /\ [](estimated_cost_usd >= 0 /\ estimated_cost_usd <= client_cost)
    /\ [](\A i, o \in 0..MaxTokens, model \in {"smart", "cheap"} :
            add_cost(estimated_cost_usd * 100000000, i, o, model)
                >= estimated_cost_usd * 100000000)

C26_Witness ==
    /\ pc = "done"
    /\ estimated_cost_usd > max_cost_usd
    /\ calls.reflector >= 1

\* the researcher spans of round r, by position in the trace
RoundSpans(r) == {i \in SpansNamed("researcher") : spans[i].metadata.round = r}
StagePcs == {"plan", "research", "reflect", "synth"}

\* C27: round 1 invokes the researcher on the planner's subqueries in list
\* order; every round r >= 2 invokes it on exactly one query, the follow-up
\* returned by the reflector after round r-1, or the first planner subquery
\* when that follow-up is empty or missing, unless a cost-cap or source-cap
\* stop (or an exception) cuts the round short; the list of queries scheduled
\* for a round is never empty.
C27_QueriesPerRound ==
    /\ [](\A i \in RoundSpans(1) :
            spans[i].metadata.subquery
                = subqueries[Cardinality({j \in RoundSpans(1) : j <= i})])
    /\ [](\A i \in SpansNamed("researcher") :
            spans[i].metadata.round >= 2
                => /\ Cardinality(RoundSpans(spans[i].metadata.round)) = 1
                   /\ spans[i].metadata.subquery
                        = knowledge_gaps[spans[i].metadata.round - 1])
    /\ [][(pc = "next_round" /\ pc' = "progress_round")
            => current_queries' =
                 IF OrEmpty(reflection.follow_up_query) = ""
                 THEN <<subqueries[1]>>
                 ELSE <<reflection.follow_up_query>>]_vars
    /\ [](round_num >= 1
            => /\ current_queries # << >>
               /\ round_num = 1 => current_queries = subqueries
               /\ round_num >= 2 => Len(current_queries) = 1)
    /\ []((pc = "round_end" /\ round_exit = "exhausted")
            => Cardinality(RoundSpans(round_num)) = Len(current_queries))

C27_Witness ==
    /\ pc = "done"
    /\ Len(subqueries) = 2
    /\ Cardinality(RoundSpans(1)) = 2
    /\ RoundSpans(2) # {}
    /\ \A i \in RoundSpans(2) : spans[i].metadata.subquery = "follow up"

\* C28: the cost and source caps are evaluated only immediately before a
\* researcher invocation: only a budget check stops the run on the cost cap
\* or ends a round on the source cap, a stage invocation is never cut by
\* one, and none precedes a reflector or synthesizer invocation, which run
\* even when the cost is at or over the cap.
C28_BudgetChecksOnlyBeforeResearch ==
    /\ [][(stop_reason'.kind = "cost_cap" /\ stop_reason.kind # "cost_cap")
            => (BudgetCheck /\ pc' = "finally")]_vars
    /\ [][(round_exit' = "source_cap" /\ round_exit # "source_cap")
            => BudgetCheck]_vars
    /\ [][(pc \in StagePcs)
            => (stop_reason'.kind # "cost_cap" /\ round_exit' = round_exit
                /\ calls' # calls)]_vars
    /\ [][(BudgetCheck /\ pc' \notin {"except", "finally", "progress_source_cap"})
            => pc' = "progress_searching"]_vars
    /\ [][(pc = "progress_searching" /\ pc' # "except") => pc' = "research"]_vars
    /\ [][calls'.researcher # calls.researcher
            => /\ estimated_cost_usd < max_cost_usd
               /\ total_sources < max_sources_per_run]_vars
    /\ [][(pc \in {"round_end", "progress_evaluating", "after_reflect",
                     "progress_coverage", "progress_max_rounds", "loop_exit",
                     "progress_synthesizing"})
            => (status' = "running" \/ pc' = "except")]_vars

C28_Witness ==
    /\ pc = "synth"
    /\ status = "running"
    /\ estimated_cost_usd >= max_cost_usd
    /\ calls.reflector >= 1

\* C29: page_summaries never holds two entries with the same url: a
\* researcher call produces no summary for a url already visited, nor two for
\* a url returned twice in one search batch.
C29_NoDuplicateUrls ==
    \A i, j \in 1..Len(page_summaries) :
        i # j => page_summaries[i].url # page_summaries[j].url

C29_Witness ==
    /\ calls.researcher >= 3
    /\ Len(page_summaries) >= 2
    /\ page_summaries[1].round_number # Last(page_summaries).round_number
    /\ Cardinality(visited_urls) = Len(page_summaries)

\* C30: for a search result, fetch_page is called exactly when the result's
\* own content has fewer than 100 words; the result is skipped for lack of
\* content only if both its own content and the fetched content are
\* unavailable or shorter than 30 words; a summary is tagged "tavily" when
\* the search content was summarized and with the fetch result's source when
\* the fetched content was.
C30_BestContent ==
    pc = "returned" =>
        /\ (fn_ret.fetched # << >>) <=> (fn_arg.words < 100)
        /\ fn_ret.fetched # << >> => fn_ret.fetched = <<fn_arg.url>>
        /\ (fn_ret.summary = << >> /\ fn_arg.summary_ok)
              => /\ fn_arg.words < 30
                 /\ ~fn_arg.fetch.success \/ fn_arg.fetch.words < 30
        /\ fn_ret.summary # << >>
              => fn_ret.summary[1].source =
                    IF fn_arg.words < 100 /\ fn_arg.fetch.success
                    THEN fn_arg.fetch.source ELSE "tavily"

\* C31: for non-empty summaries, reflect returns has_gap = true exactly when
\* the LLM call succeeds, its output parses as a JSON object, and
\* follow_up_query is present, non-null, non-empty after trimming and not
\* "null" or "none" in any letter case; in every other case it returns
\* has_gap = false with no follow-up query.
C31_GapExactlyOnUsableFollowUp ==
    (pc = "returned" /\ page_summaries # << >>) =>
        /\ fn_ret.has_gap <=>
              /\ fn_arg.ok
              /\ fn_arg.json = "object"
              /\ fn_arg.follow_up \notin
                    {"missing", None, "", " ", "null", "NULL", "None", "nOnE",
                     " none "}
        /\ fn_ret.has_gap => fn_ret.follow_up_query = "follow up"
        /\ ~fn_ret.has_gap => fn_ret.follow_up_query = None

C31_Witness ==
    /\ pc = "returned"
    /\ page_summaries # << >>
    /\ fn_arg.ok /\ fn_arg.json = "object"
    /\ fn_arg.follow_up = "nOnE"
    /\ ~fn_ret.has_gap

\* C32: whenever synthesize is called with at least one page summary, it ends
\* with status = success and a non-empty final_report that ends with the
\* references, whose entries [1]..[len(sources)] list the sources in order;
\* also when the outline call, the report call or both fail or return
\* unusable output.
C32_SynthesisSucceeds ==
    (pc = "returned" /\ page_summaries # << >>) =>
        /\ status = "success"
        /\ final_report # ""
        /\ fn_ret.body \in {"llm", "fallback"}
        /\ fn_ret.sections \in {"sections", "generic"}
        /\ Len(fn_ret.references) = Len(sources)
        /\ \A i \in 1..Len(sources) :
              fn_ret.references[i].n = i /\ fn_ret.references[i].url = sources[i]

C32_Witness ==
    /\ pc = "returned"
    /\ fn_arg.outline = "fail"
    /\ ~fn_arg.report.ok
    /\ fn_ret.body = "fallback"
    /\ status = "success"
    /\ Len(fn_ret.references) = top_k_summaries

\* C33: after synthesis on n >= 1 page summaries, sources is exactly the urls
\* of the first min(top_k_summaries, n) page summaries in insertion order, so
\* len(sources) <= top_k_summaries, and sources[i] is the source numbered
\* [i+1] in the references.
C33_SourcesAreFirstTopK ==
    (pc = "returned" /\ page_summaries # << >>) =>
        /\ Len(sources) = (IF Len(page_summaries) < top_k_summaries
                           THEN Len(page_summaries) ELSE top_k_summaries)
        /\ \A i \in 1..Len(sources) : sources[i] = page_summaries[i].url
        /\ Len(sources) <= top_k_summaries
        /\ \A i \in 1..Len(fn_ret.references) :
              /\ i <= Len(sources)
              /\ fn_ret.references[i].n = i
              /\ fn_ret.references[i].url = sources[i]

C33_Witness ==
    /\ pc = "returned"
    /\ Len(page_summaries) > top_k_summaries
    /\ page_summaries[1].url.id > page_summaries[2].url.id
    /\ Len(sources) = top_k_summaries

\* C34 as stated: the LLM's text is the report body whenever the report call
\* succeeds and the response has at least 100 characters; the fallback dump
\* is emitted only when the call fails or the response has fewer than 100.
C34_ReportBodyFrom100Chars ==
    pc = "returned" =>
        (fn_ret.body = "llm"
            <=> (fn_arg.report.ok
                 /\ fn_arg.report.chars + fn_arg.report.padding >= MinReportChars))

\* C34, amended: the LLM's text is the report body exactly when the report
\* call succeeds and the trimmed response has more than 100 characters;
\* otherwise the fallback dump is emitted.
C34_ReportBodyOver100Trimmed ==
    pc = "returned" =>
        /\ fn_ret.body = "llm"
              <=> (fn_arg.report.ok /\ fn_arg.report.chars > MinReportChars)
        /\ fn_ret.body = "fallback"
              <=> (~fn_arg.report.ok \/ fn_arg.report.chars <= MinReportChars)

C34_Witness ==
    /\ pc = "returned"
    /\ fn_arg.report.ok
    /\ fn_arg.report.chars = MinReportChars
    /\ fn_ret.body = "fallback"

\* s is an initial segment of t
IsPrefix(s, t) == Len(s) <= Len(t) /\ SubSeq(t, 1, Len(s)) = s

\* C35: during a run page_summaries, errors, knowledge_gaps and the trace's
\* spans only grow at their end (no step removes, reorders or rewrites an
\* entry), query never changes, and subqueries is assigned once, by the
\* planner's only invocation, and changed by no later step.
C35_AppendOnlyAndWrittenOnce ==
    /\ [][/\ IsPrefix(page_summaries, page_summaries')
          /\ IsPrefix(errors, errors')
          /\ IsPrefix(knowledge_gaps, knowledge_gaps')
          /\ IsPrefix(spans, spans')
          /\ query' = query]_vars
    /\ [][subqueries' # subqueries
            => /\ pc = "plan"
               /\ calls.planner = 0 /\ calls'.planner = 1
               /\ subqueries = << >>]_vars
    /\ [](calls.planner <= 1)
    /\ []((calls.planner = 1 /\ spans # << >> /\ spans[1].finished
              /\ spans[1].status = "success")
            => subqueries # << >>)

C35_Witness ==
    /\ pc = "done"
    /\ Len(knowledge_gaps) >= 2
    /\ Len(page_summaries) >= 2
    /\ Len(spans) >= 5
    /\ errors # << >>
    /\ Len(subqueries) = 2

\* the first part of the authority of the checked url, as written
CheckedHost == Head(fn_arg.authority)

\* C36: is_safe_url(u) is true exactly when u, trimmed, starts with http://
\* or https://, its host (the text after :// up to the first / or :,
\* lowercased) is non-empty, and the host is none of localhost, 127.*,
\* 0.0.0.0, 10.*, 172.16.* to 172.31.*, 192.168.* or ::1; 172.15.0.1 and
\* 172.32.0.1 are safe, 172.16.0.1 and 172.31.255.255 are blocked; the result
\* depends on u alone.
C36_SafeUrl ==
    pc = "returned" =>
        /\ fn_ret <=>
              /\ fn_arg.scheme = "http" \/ fn_arg.scheme = "https"
              /\ CheckedHost.kind = "name"
                    => CheckedHost.name \notin {"", "localhost", "LOCALHOST"}
              /\ CheckedHost.kind = "ipv4"
                    => /\ CheckedHost.ip[1] \notin {127, 10}
                       /\ CheckedHost.ip # <<0, 0, 0, 0>>
                       /\ ~(CheckedHost.ip[1] = 172 /\ CheckedHost.ip[2] >= 16
                              /\ CheckedHost.ip[2] <= 31)
                       /\ ~(CheckedHost.ip[1] = 192 /\ CheckedHost.ip[2] = 168)
        /\ (fn_arg.scheme = "http"
              /\ CheckedHost \in {HostIp(172, 15, 0, 1), HostIp(172, 32, 0, 1)})
              => fn_ret
        /\ CheckedHost \in {HostIp(172, 16, 0, 1), HostIp(172, 31, 255, 255)}
              => ~fn_ret

C36_Witness ==
    /\ pc = "returned"
    /\ fn_arg.padded
    /\ fn_arg.scheme = "https"
    /\ fn_arg.authority = <<HostIp(172, 32, 0, 1), HostName("8080")>>
    /\ fn_ret

\* the reflector invocations so far that reported a gap
GapVerdicts == {i \in 1..Len(verdicts) : verdicts[i]}

\* C37: knowledge_gaps gains exactly one entry, the follow-up query, appended
\* last, on each reflector invocation that reports a gap, and is otherwise
\* never modified; at return its length is the number of gap verdicts, at
\* most max_research_rounds - 1, and between rounds_completed - 1 and
\* rounds_completed whenever rounds_completed >= 1.
C37_OneGapPerGapVerdict ==
    /\ [][knowledge_gaps' # knowledge_gaps
            => /\ pc = "reflect"
               /\ calls'.reflector = calls.reflector + 1
               /\ reflection'.has_gap
               /\ knowledge_gaps'
                    = Append(knowledge_gaps, reflection'.follow_up_query)]_vars
    /\ [][(Len(verdicts') = Len(verdicts) + 1 /\ verdicts'[Len(verdicts')])
            => Len(knowledge_gaps') = Len(knowledge_gaps) + 1]_vars
    /\ [][(Len(verdicts') = Len(verdicts) + 1 /\ ~verdicts'[Len(verdicts')])
            => knowledge_gaps' = knowledge_gaps]_vars
    /\ [](pc = "done"
            => /\ Len(knowledge_gaps) = Cardinality(GapVerdicts)
               /\ Len(knowledge_gaps) <= max_research_rounds - 1
               /\ rounds_completed >= 1
                    => /\ rounds_completed - 1 <= Len(knowledge_gaps)
                       /\ Len(knowledge_gaps) <= rounds_completed)

C37_Witness ==
    /\ pc = "done"
    /\ rounds_completed = max_research_rounds
    /\ Len(knowledge_gaps) = max_research_rounds - 1
    /\ knowledge_gaps[1] = "follow up"

\* C38: provided every stage invocation returns or raises, every run
\* terminates, after at most 1 planner invocation, len(subqueries) +
\* max_research_rounds - 1 researcher invocations, max_research_rounds - 1
\* reflector invocations and 1 synthesizer invocation, whatever the
\* reflector answers.
C38_Terminates ==
    /\ <>(pc \in {"done", "raised"})
    /\ [](/\ calls.planner <= 1
          /\ calls.researcher <= Len(subqueries) + max_research_rounds - 1
          /\ calls.reflector <= max_research_rounds - 1
          /\ calls.synthesizer <= 1)

C38_Witness ==
    /\ pc = "done"
    /\ calls.planner = 1
    /\ calls.researcher = Len(subqueries) + max_research_rounds - 1
    /\ calls.reflector = max_research_rounds - 1
    /\ calls.synthesizer = 1

\* a run that returned having collected no summary, met no exception and no
\* cost-cap stop, and whose query was valid
BarrenRun ==
    /\ pc = "done"
    /\ page_summaries = << >>
    /\ errors = << >>
    /\ stop_reason.kind # "cost_cap"

\* C39: if no researcher invocation adds a summary (and no cost-cap stop or
\* exception occurs), each reflection returns has_gap = true with
\* follow_up_query = the original query without calling the LLM, so the run
\* executes all max_research_rounds rounds, searching the original query
\* again in every round r >= 2, and the synthesizer then records status =
\* partial with sources = [] without calling the LLM.
C39_BarrenRunUsesAllRounds ==
    /\ [][(pc = "reflect" /\ page_summaries = << >> /\ pc' = "after_reflect")
            => /\ reflection' = [has_gap |-> TRUE, follow_up_query |-> QueryText]
               /\ client_cost' = client_cost]_vars
    /\ [][(pc = "synth" /\ page_summaries = << >> /\ pc' # "except")
            => /\ status' = "partial" /\ sources' = << >>
               /\ client_cost' = client_cost]_vars
    /\ [](BarrenRun
            => /\ rounds_completed = max_research_rounds
               /\ calls.reflector = max_research_rounds - 1
               /\ knowledge_gaps = [i \in 1..(max_research_rounds - 1) |-> QueryText]
               /\ \A r \in 2..max_research_rounds :
                     /\ Cardinality(RoundSpans(r)) = 1
                     /\ \A i \in RoundSpans(r) :
                           spans[i].metadata.subquery = QueryText
               /\ calls.synthesizer = 1
               /\ status = "partial"
               /\ sources = << >>)

C39_Witness ==
    /\ BarrenRun
    /\ rounds_completed = max_research_rounds
    /\ calls.researcher = Len(subqueries) + max_research_rounds - 1
    /\ Len(subqueries) = 2
    /\ status = "partial"

\* round r, once over, was cut by the source cap: the sources are at the cap
\* and the researcher ran on fewer queries than the round had scheduled
SourceCapRound(r) ==
    /\ total_sources >= max_sources_per_run
    /\ Cardinality(RoundSpans(r)) < (IF r = 1 THEN Len(subqueries) ELSE 1)

\* the round the loop is in was entered after a round cut by the source cap
EnteredAfterCap == \E r \in 1..(round_num - 1) : SourceCapRound(r)

\* no exception reached the handler of run_research
NoException == \A i \in 1..Len(errors) : errors[i].kind # "unexpected"

\* the rounds after the first one cut by the source cap invoked no researcher
NoResearchAfterCap ==
    \A r \in 1..(round_num - 1) :
        SourceCapRound(r)
            => \A later \in (r + 1)..round_num : RoundSpans(later) = {}

\* reaching the source cap in a round before the last one does not end the
\* loop: the round is counted and the reflector comes next
SourceCapGoesOn ==
    /\ [][(pc = "round_end" /\ round_exit = "source_cap")
            => /\ rounds_completed' = round_num
               /\ round_num < max_research_rounds => pc' = "progress_evaluating"]_vars
    /\ [][(pc = "progress_evaluating" /\ pc' # "except") => pc' = "reflect"]_vars
    /\ [][pc = "reflect" => calls'.reflector = calls.reflector + 1]_vars
    /\ [][(pc = "after_reflect" /\ reflection.has_gap) => pc' = "progress_gap"]_vars
    /\ [][(pc = "next_round" /\ round_num < max_research_rounds)
            => (round_num' = round_num + 1 /\ pc' = "progress_round")]_vars

\* C40 as stated: reaching the source cap in round r < max_research_rounds
\* does not end the loop: rounds_completed is set to r, the reflector is
\* invoked, and while it reports a gap each later round is entered and
\* counted in rounds_completed, with no researcher invocation and no new
\* page summary.
C40_LaterRoundsCounted ==
    /\ SourceCapGoesOn
    /\ []((pc = "done" /\ NoException /\ EnteredAfterCap)
            => (rounds_completed = round_num /\ NoResearchAfterCap))

\* C40, amended: the same, unless the cost cap stops the run at the check
\* that opens a later round (the reflector's own call can push the cost over
\* the cap); that round is entered but not counted. At every return of a run
\* that entered a round after the source cap, the rounds after the cap held
\* no researcher invocation, and the round the loop was in is counted unless
\* the run was stopped inside it: by the cost cap always, and otherwise only
\* by an exception that reached the handler.
C40_LaterRoundsCountedUnlessCostCap ==
    /\ SourceCapGoesOn
    /\ []((pc = "done" /\ EnteredAfterCap)
            => /\ NoResearchAfterCap
               /\ rounds_completed \in {round_num - 1, round_num}
               /\ stop_reason.kind = "cost_cap" => rounds_completed = round_num - 1
               /\ stop_reason.kind \notin {"cost_cap", "unexpected"}
                     => rounds_completed = round_num)

C40_Witness ==
    /\ pc = "done"
    /\ NoException
    /\ SourceCapRound(1)
    /\ round_num = max_research_rounds
    /\ rounds_completed = max_research_rounds
    /\ calls.reflector = max_research_rounds - 1
    /\ RoundSpans(2) = {}
====
